---- MODULE Spec2Model ----
(***************************************************************************)
(* Model of web/src/llm.js: the response normalizer (extractJson, matches, *)
(* parseScore, parseComment, parseScores, parseResponse) and the two       *)
(* backends behind generateFeedback (generateWithWebLLM, generateWithAPI). *)
(* The click handler of the generate button (web/src/main.js) is the       *)
(* caller of generateFeedback in the page.                                 *)
(*                                                                         *)
(* JavaScript strings are sequences of text chunks: area names are         *)
(* sequences of single characters, so that toLowerCase, trim and replace   *)
(* act on them as the code does; other strings are one chunk.  A reply     *)
(* text is a sequence of lexical tokens (see Tokens).                      *)
(***************************************************************************)
EXTENDS Integers, Sequences, FiniteSets, TLC

\* ------------------------------------------------------------------ bounds
\* Longest reply text (in tokens) enumerated exhaustively.
MaxTextLen == 5
\* Most entries in a decoded score array.
MaxEntries == 2
\* generateFeedback calls that may be started (and overlap).
MaxCalls == 2

\* ------------------------------------------------------- JavaScript values
\* A decoded JSON value: its typeof-like tag t; a number is n + f/10 (f the
\* tenths, so 4.5 is n = 4, f = 5); a boolean keeps n = 1 for true; a string
\* keeps its chunks in s.
JsVal(t, n, f, s) == [t |-> t, n |-> n, f |-> f, s |-> s]
Undef == JsVal("undefined", 0, 0, <<>>)
Null == JsVal("null", 0, 0, <<>>)
Num(n) == JsVal("number", n, 0, <<>>)
Frac(n, f) == JsVal("number", n, f, <<>>)
Str(s) == JsVal("string", 0, 0, s)
Bool(b) == JsVal("boolean", IF b THEN 1 ELSE 0, 0, <<>>)
EmptyObj == JsVal("object", 0, 0, <<>>)
EmptyArr == JsVal("array", 0, 0, <<>>)

\* JavaScript truthiness, as used by || and if (...).
Truthy(v) ==
  CASE v.t \in {"undefined", "null"} -> FALSE
    [] v.t = "number" -> ~(v.n = 0 /\ v.f = 0)
    [] v.t = "string" -> v.s # <<>>
    [] v.t = "boolean" -> v.n = 1
    [] OTHER -> TRUE

\* a || b
OrElse(a, b) == IF Truthy(a) THEN a ELSE b

\* --------------------------------------------------------- String.prototype
Lower(c) ==
  CASE c = "A" -> "a" [] c = "B" -> "b" [] c = "C" -> "c" [] c = "D" -> "d"
    [] c = "K" -> "k" [] c = "M" -> "m" [] c = "O" -> "o" [] c = "S" -> "s"
    [] OTHER -> c

toLowerCase(s) == [i \in 1..Len(s) |-> Lower(s[i])]

IsSpace(c) == c \in {" ", "\t", "\n"}

RECURSIVE trimStart(_)
trimStart(s) ==
  IF s # <<>> /\ IsSpace(Head(s)) THEN trimStart(Tail(s)) ELSE s

RECURSIVE trimEnd(_)
trimEnd(s) ==
  IF s # <<>> /\ IsSpace(s[Len(s)]) THEN trimEnd(SubSeq(s, 1, Len(s) - 1)) ELSE s

trim(s) == trimEnd(trimStart(s))

StartsWith(s, pat) == Len(s) >= Len(pat) /\ SubSeq(s, 1, Len(pat)) = pat

\* s.replace(/pat/g, rep) for a literal pattern: leftmost, non-overlapping.
RECURSIVE replaceAll(_, _, _)
replaceAll(s, pat, rep) ==
  IF s = <<>> THEN <<>>
  ELSE IF StartsWith(s, pat)
       THEN rep \o replaceAll(SubSeq(s, Len(pat) + 1, Len(s)), pat, rep)
       ELSE <<Head(s)>> \o replaceAll(Tail(s), pat, rep)

AkaDotted == <<"a", ".", "k", ".", "a", ".">>
AkaDotless == <<"a", ".", "k", ".", "a">>
Aka == <<"a", "k", "a">>

\* llm.js:22-27
norm(s) == replaceAll(replaceAll(trim(toLowerCase(s)), AkaDotted, Aka), AkaDotless, Aka)

\* matches as a containment test: the area name occurs inside the reply name.
matchesContaining(respName, canonical) ==
  \E i \in 0..Len(norm(respName)) :
    StartsWith(SubSeq(norm(respName), i + 1, Len(norm(respName))), norm(canonical))

\* llm.js:21-29; both arguments are strings here (see find for the others).
matches(respName, canonical) == norm(respName) = norm(canonical)

\* ------------------------------------------------------------- normalizer
Placeholder == <<"Not evaluated/not enough data">>
OverallPlaceholder == <<"See interview notes for details.">>

\* llm.js:31-35
parseScore(val) ==
  IF val.t \in {"undefined", "null"} THEN Null
  ELSE IF val.t = "number" /\ val.n >= 1 /\ (val.n < 5 \/ (val.n = 5 /\ val.f = 0))
       THEN val
       ELSE Null

\* llm.js:37-39
parseComment(val) == IF val.t = "string" THEN val.s ELSE Placeholder

\* An element of a decoded score array.  An object keeps its name, score and
\* comment properties (Undef when the key is absent); a primitive element has
\* none, so reading them gives undefined.
ObjEntry(name, score, comment) ==
  [t |-> "object", n |-> 0, f |-> 0, s |-> <<>>,
   name |-> name, score |-> score, comment |-> comment]
PrimEntry(v) ==
  [t |-> v.t, n |-> v.n, f |-> v.f, s |-> v.s,
   name |-> Undef, score |-> Undef, comment |-> Undef]

\* The value under a *_scores key: an array with its elements, or anything else.
ArrRaw(elems) == [t |-> "array", n |-> 0, f |-> 0, s |-> <<>>, elems |-> elems]
ScalarRaw(v) == [t |-> v.t, n |-> v.n, f |-> v.f, s |-> v.s, elems |-> <<>>]

\* The decoded top-level value: an object with the six keys the normalizer
\* reads (Undef / ScalarRaw(Undef) when absent), or a non-object value.
ObjData(tech, nontech, personal, level, cand, comment) ==
  [t |-> "object", n |-> 0, f |-> 0, s |-> <<>>,
   technical_scores |-> tech, non_technical_scores |-> nontech,
   personal_assessment_scores |-> personal,
   overall_level |-> level, candidate_name |-> cand, overall_comment |-> comment]
NonObjData(v) ==
  [t |-> v.t, n |-> v.n, f |-> v.f, s |-> v.s,
   technical_scores |-> ScalarRaw(Undef), non_technical_scores |-> ScalarRaw(Undef),
   personal_assessment_scores |-> ScalarRaw(Undef),
   overall_level |-> Undef, candidate_name |-> Undef, overall_comment |-> Undef]
EmptyData == NonObjData(EmptyObj)

ScoreEntry(name, score, comment) == [name |-> name, score |-> score, comment |-> comment]

\* raw.find((s) => matches(s.name || "", area)), llm.js:44.  Reading .name of
\* null throws; a truthy name that is no string has no toLowerCase, so norm
\* throws; the search stops at the first match.
RECURSIVE find(_, _, _)
find(elems, i, area) ==
  IF i > Len(elems) THEN [st |-> "none", e |-> PrimEntry(Undef)]
  ELSE LET s == elems[i]
           nm == OrElse(s.name, Str(<<>>))
       IN IF s.t = "null" THEN [st |-> "throw", e |-> s]
          ELSE IF nm.t # "string" THEN [st |-> "throw", e |-> s]
          ELSE IF matches(nm.s, area) THEN [st |-> "found", e |-> s]
          ELSE find(elems, i + 1, area)

\* The callback with the name copied from the matched reply entry.
scoreForReplyName(raw, area) ==
  IF raw.t # "array" THEN [st |-> "throw", entry |-> ScoreEntry(area, Null, Placeholder)]
  ELSE LET r == find(raw.elems, 1, area) IN
       IF r.st = "throw" THEN [st |-> "throw", entry |-> ScoreEntry(area, Null, Placeholder)]
       ELSE IF r.st = "found" /\ Truthy(r.e)
            THEN [st |-> "ok",
                  entry |-> ScoreEntry(r.e.name.s, parseScore(r.e.score),
                                       parseComment(r.e.comment))]
            ELSE [st |-> "ok", entry |-> ScoreEntry(area, Null, Placeholder)]

\* The callback of areas.map, llm.js:43-57.
scoreFor(raw, area) ==
  IF raw.t # "array" THEN [st |-> "throw", entry |-> ScoreEntry(area, Null, Placeholder)]
  ELSE LET r == find(raw.elems, 1, area) IN
       IF r.st = "throw" THEN [st |-> "throw", entry |-> ScoreEntry(area, Null, Placeholder)]
       ELSE IF r.st = "found" /\ Truthy(r.e)
            THEN [st |-> "ok",
                  entry |-> ScoreEntry(area, parseScore(r.e.score), parseComment(r.e.comment))]
            ELSE [st |-> "ok", entry |-> ScoreEntry(area, Null, Placeholder)]

\* llm.js:41-58.  data[dataKey] throws on null; every other non-object gives
\* undefined.  err is a TypeError raised on the way.
parseScores(dataKey, areas, data) ==
  IF data.t = "null" THEN [err |-> TRUE, val |-> <<>>]
  ELSE LET raw == OrElse(data[dataKey], ArrRaw(<<>>))
           per == [i \in 1..Len(areas) |-> scoreFor(raw, areas[i])]
       IN [err |-> \E i \in 1..Len(areas) : per[i].st = "throw",
           val |-> [i \in 1..Len(areas) |-> per[i].entry]]

\* ------------------------------------------------------------- extraction
\* A reply text is a sequence of tokens: the two braces, a code fence
\* (three backticks), the fence tag json, whitespace, a word of prose x, a
\* digit 5, the JSON literals null and [], and m, the members of the JSON
\* object of the reply (the body is their decoded value).
IsFence(T, i) == i <= Len(T) /\ T[i] = "fence"

RECURSIVE SkipWs(_, _)
SkipWs(T, k) == IF k <= Len(T) /\ IsSpace(T[k]) THEN SkipWs(T, k + 1) ELSE k

Min(S) == CHOOSE x \in S : \A y \in S : x <= y
Max(S) == CHOOSE x \in S : \A y \in S : x >= y

\* llm.js:14: fence, optional json tag, optional whitespace, then the group,
\* which opens with a brace.  Where the group starts for a match beginning
\* at i (0: no match there).
FenceOpen(T, i) ==
  LET j == IF i + 1 <= Len(T) /\ T[i + 1] = "json" THEN i + 2 ELSE i + 1
      k == SkipWs(T, j)
  IN IF IsFence(T, i) /\ k <= Len(T) /\ T[k] = "{" THEN k ELSE 0

\* The closing braces that can end the group opened at k: each is followed by
\* optional whitespace and a fence.  The group is lazy: it ends at the first.
FenceClosers(T, k) ==
  {e \in (k + 1)..Len(T) : T[e] = "}" /\ IsFence(T, SkipWs(T, e + 1))}

FenceStarts(T) ==
  {i \in 1..Len(T) : FenceOpen(T, i) # 0 /\ FenceClosers(T, FenceOpen(T, i)) # {}}

Opens(T) == {i \in 1..Len(T) : T[i] = "{"}
Closes(T) == {i \in 1..Len(T) : T[i] = "}"}

\* llm.js:12-19
extractJson(text) ==
  LET trimmed == trim(text) IN
  IF FenceStarts(trimmed) # {}
  THEN LET k == FenceOpen(trimmed, Min(FenceStarts(trimmed)))
       IN SubSeq(trimmed, k, Min(FenceClosers(trimmed, k)))
  ELSE IF Opens(trimmed) # {} /\ \E e \in Closes(trimmed) : e > Min(Opens(trimmed))
       THEN SubSeq(trimmed, Min(Opens(trimmed)), Max(Closes(trimmed)))
       ELSE trimmed

\* JSON.parse on a token sequence: ok is FALSE for a SyntaxError.  JSON allows
\* whitespace around the value and inside the braces.
JSONparse(T, body) ==
  LET U == trim(T)
      inner == IF Len(U) >= 2 THEN trim(SubSeq(U, 2, Len(U) - 1)) ELSE <<>>
  IN IF U = <<>> THEN [ok |-> FALSE, data |-> EmptyData]
     ELSE IF \A i \in 1..Len(U) : U[i] = "5" THEN [ok |-> TRUE, data |-> NonObjData(Num(5))]
     ELSE IF U = <<"null">> THEN [ok |-> TRUE, data |-> NonObjData(Null)]
     ELSE IF U = <<"[]">> THEN [ok |-> TRUE, data |-> NonObjData(EmptyArr)]
     ELSE IF Len(U) >= 2 /\ U[1] = "{" /\ U[Len(U)] = "}" /\ inner = <<>>
          THEN [ok |-> TRUE, data |-> EmptyData]
     ELSE IF Len(U) >= 2 /\ U[1] = "{" /\ U[Len(U)] = "}" /\ inner = <<"m">>
          THEN [ok |-> TRUE, data |-> body]
     ELSE [ok |-> FALSE, data |-> EmptyData]

\* includes that accepts any string as a level.
includesAnyString(levels, v) == v.t = "string"

\* profile.overall_levels.includes(v): strict equality with one of the labels.
includes(levels, v) == v.t = "string" /\ \E i \in 1..Len(levels) : levels[i] = v.s

Report(cand, tech, nontech, personal, level, comment) ==
  [candidate_name |-> cand, technical_scores |-> tech, non_technical_scores |-> nontech,
   personal_assessment_scores |-> personal, overall_level |-> level,
   overall_comment |-> comment, ai_evaluation |-> <<>>]
NoReport == Report(Undef, <<>>, <<>>, <<>>, Undef, Undef)

\* How a call ends: a Report returned, or an Error thrown (its message, and for
\* an API error the status and body text it carries).
Returned(report) ==
  [kind |-> "Report", error |-> "", status |-> 0, detail |-> "", report |-> report]
Thrown(error, status, detail) ==
  [kind |-> "Error", error |-> error, status |-> status, detail |-> detail,
   report |-> NoReport]
Pending == [kind |-> "Pending", error |-> "", status |-> 0, detail |-> "", report |-> NoReport]

ParseErrorMsg == "Failed to parse LLM response as JSON"

\* The decode step with a catch that falls back to the empty object.
decodeSwallowing(jsonStr, body) ==
  LET r == JSONparse(IF jsonStr = <<>> THEN <<"{", "}">> ELSE jsonStr, body)
  IN IF r.ok THEN r ELSE [ok |-> TRUE, data |-> EmptyData]

\* llm.js:62-67: JSON.parse(jsonStr || "{}") inside the try; ok is FALSE when
\* the catch rethrows.
decode(jsonStr, body) ==
  JSONparse(IF jsonStr = <<>> THEN <<"{", "}">> ELSE jsonStr, body)

\* llm.js:84
defaultLevelOf(profile) ==
  OrElse(IF Len(profile.overall_levels) > 0 THEN Str(profile.overall_levels[1]) ELSE Undef,
         Str(<<"Medior">>))

\* llm.js:60-99.  body is the decoded value of the members token m of the text.
parseResponse(content, body, profile, candidateName) ==
  LET jsonStr == extractJson(content)
      parsed == decode(jsonStr, body)
      data == parsed.data
      technicalScores == parseScores("technical_scores", profile.technical, data)
      nonTechnicalScores == parseScores("non_technical_scores", profile.non_technical, data)
      personalAssessmentScores ==
        IF Len(profile.personal_assessment) # 0
        THEN parseScores("personal_assessment_scores", profile.personal_assessment, data)
        ELSE [err |-> FALSE, val |-> <<>>]
      defaultLevel == defaultLevelOf(profile)
      overallLevel == OrElse(data.overall_level, defaultLevel)
  IN IF ~parsed.ok THEN Thrown(ParseErrorMsg, 0, "")
     ELSE IF technicalScores.err \/ nonTechnicalScores.err \/ personalAssessmentScores.err
          THEN Thrown("TypeError", 0, "")
     ELSE Returned(Report(
            OrElse(data.candidate_name, Str(candidateName)),
            technicalScores.val, nonTechnicalScores.val, personalAssessmentScores.val,
            IF includes(profile.overall_levels, overallLevel) THEN overallLevel ELSE defaultLevel,
            OrElse(data.overall_comment, Str(OverallPlaceholder))))

\* ------------------------------------------------------------------ state
VARIABLES
  webllmEngine,  \* llm.js:10: 0 for null, else the engine instance
  pc,            \* per call: idle, the await it is suspended at, or done
  args,          \* per call: the arguments of generateFeedback
  frame,         \* per call: the awaited promise and the locals it settles
  outcome,       \* per call: what generateFeedback returned or threw
  hist,          \* per call: backend invocations made so far
  generateBtn,   \* the generate button of the page: its disabled flag
  click          \* per click on it: the position of the handler it started

coreVars == <<webllmEngine, pc, args, frame, outcome, hist>>
uiVars == <<generateBtn, click>>
vars == <<webllmEngine, pc, args, frame, outcome, hist, generateBtn, click>>

Calls == 1..MaxCalls

\* A click starts at most one call of generateFeedback.
Clicks == 1..MaxCalls

\* ----------------------------------------------------------------- inputs
NCom == <<"C", "o", "m">>
NComSp == <<" ", "C", "o", "m", " ">>
NComUp == <<"c", "O", "M">>
NSub == <<"B", " ", "(", "a", ".", "k", ".", "a", ".", " ", "C", "o", "m", ")">>
NAka == <<"A", "b", " ", "a", "k", "a", " ", "C", "d">>
NAkaDotted == <<"A", "b", " ", "a", ".", "k", ".", "a", ".", " ", "C", "d">>
NAkaDotless == <<"a", "b", " ", "A", ".", "K", ".", "a", " ", "C", "d">>
NSql == <<"S", "q", "l">>

Profile(tech, nontech, personal, levels) ==
  [technical |-> tech, non_technical |-> nontech, personal_assessment |-> personal,
   overall_levels |-> levels]

\* Profiles as the profiles/*.json files give them: area names are non-blank
\* and unique within a profile, level labels are non-empty.  An absent
\* personal_assessment key and an empty list behave alike (llm.js:76).
P1 == Profile(<<NCom, NAka>>, <<NSql>>, <<>>, <<<<"Junior">>, <<"Senior">>>>)
P2 == Profile(<<NAkaDotted>>, <<>>, <<NCom>>, <<<<"Medior">>, <<"Junior">>, <<"Senior">>>>)
P3 == Profile(<<NAkaDotless, NSql>>, <<NCom>>, <<NSql>>, <<<<"Senior">>>>)
ProfileSet == {P1, P2, P3}

Absent == ScalarRaw(Undef)

\* A well-formed reply body for P1.
GoodBody ==
  ObjData(ArrRaw(<<ObjEntry(Str(NAka), Num(4), Str(<<"ok">>)),
                   ObjEntry(Str(NCom), Num(2), Str(<<"weak">>))>>),
          ArrRaw(<<ObjEntry(Str(NSql), Null, Str(<<"n/a">>))>>),
          Absent, Str(<<"Senior">>), Str(<<"Bob">>), Str(<<"Solid.">>))

\* What a backend replies: choices[0].message.content, which may be missing.
Reply(hasContent, content, body) ==
  [hasContent |-> hasContent, content |-> content, body |-> body]

\* A reply for P1 with an entry for no area, an area left out, and a
\* personal-assessment array the profile has no areas for.
MixedBody ==
  ObjData(ArrRaw(<<ObjEntry(Str(NSql), Num(5), Str(<<"extra">>)),
                   ObjEntry(Str(NAka), Num(4), Str(<<"ok">>))>>),
          Absent,
          ArrRaw(<<ObjEntry(Str(NCom), Num(3), Str(<<"calm">>))>>),
          Str(<<"Senior">>), Undef, Undef)

ReplySet ==
  {Reply(TRUE, <<"{", "m", "}">>, GoodBody),
   Reply(TRUE, <<"{", "m", "}">>, ObjData(Absent, Absent, Absent, Undef, Num(7), Undef)),
   Reply(TRUE, <<"x">>, EmptyData),
   Reply(FALSE, <<>>, EmptyData)}

ApiKeys == {Undef, Str(<<>>), Str(<<"sk-1">>)}
Statuses == {200, 401}
ErrBodies == {"unauthorized", ""}

NoFrame ==
  [promise |-> "none", status |-> 0, err |-> "", hasContent |-> FALSE,
   content |-> <<>>, body |-> EmptyData, engine |-> 0]
NoArgs == [mode |-> "", apiKey |-> Undef, profile |-> P1, candidateName |-> <<>>]
NoHist == [posts |-> 0, inits |-> 0, chats |-> 0]

\* A handler of the generate button that has not run: no call, no report.
NoClick == [at |-> "idle", promise |-> "none", call |-> 0, isApi |-> FALSE,
            apiKey |-> <<>>, candidate |-> <<>>, alert |-> "", pdf |-> FALSE]

\* main.js:70-71: init() leaves the button enabled, no handler running.
PageLoaded ==
  /\ generateBtn = [disabled |-> FALSE]
  /\ click = [k \in Clicks |-> NoClick]

Init ==
  /\ webllmEngine = 0
  /\ pc = [c \in Calls |-> "idle"]
  /\ args = [c \in Calls |-> NoArgs]
  /\ frame = [c \in Calls |-> NoFrame]
  /\ outcome = [c \in Calls |-> Pending]
  /\ hist = [c \in Calls |-> NoHist]
  /\ PageLoaded

\* ---------------------------------------------------------------- actions
Finish(c, result) ==
  /\ pc' = [pc EXCEPT ![c] = "done"]
  /\ outcome' = [outcome EXCEPT ![c] = result]

Suspend(c, at) ==
  /\ pc' = [pc EXCEPT ![c] = at]
  /\ frame' = [frame EXCEPT ![c].promise = "none"]
  /\ UNCHANGED outcome

\* response.ok
Ok(status) == status >= 200 /\ status <= 299

\* reply.choices?.[0]?.message?.content || "", llm.js:129 and 173
ContentOf(fr) == IF fr.hasContent THEN fr.content ELSE <<>>

\* generateWithAPI with the request issued before the credential is checked.
GenerateFeedbackFetchFirst(c, mode, apiKey, profile, candidateName) ==
  /\ pc[c] = "idle"
  /\ \A d \in Calls : d < c => pc[d] # "idle"
  /\ args' = [args EXCEPT ![c] = [mode |-> mode, apiKey |-> apiKey, profile |-> profile,
                                  candidateName |-> candidateName]]
  /\ UNCHANGED <<webllmEngine, frame>>
  /\ IF mode = "api"
     THEN /\ hist' = [hist EXCEPT ![c].posts = @ + 1]
          /\ IF ~Truthy(apiKey)
             THEN Finish(c, Thrown("API key is required", 0, ""))
             ELSE pc' = [pc EXCEPT ![c] = "fetch"] /\ UNCHANGED outcome
     ELSE IF webllmEngine = 0
          THEN /\ pc' = [pc EXCEPT ![c] = "init"]
               /\ hist' = [hist EXCEPT ![c].inits = @ + 1]
               /\ UNCHANGED outcome
          ELSE /\ pc' = [pc EXCEPT ![c] = "chat"]
               /\ hist' = [hist EXCEPT ![c].chats = @ + 1]
               /\ UNCHANGED outcome

\* generateFeedback, llm.js:183-195, with the synchronous start of the backend
\* it dispatches to: generateWithAPI up to fetch (llm.js:136-164) or
\* generateWithWebLLM up to its first await (llm.js:104-127).
GenerateFeedback(c, mode, apiKey, profile, candidateName) ==
  /\ pc[c] = "idle"
  /\ \A d \in Calls : d < c => pc[d] # "idle"
  /\ args' = [args EXCEPT ![c] = [mode |-> mode, apiKey |-> apiKey, profile |-> profile,
                                  candidateName |-> candidateName]]
  /\ UNCHANGED <<webllmEngine, frame>>
  /\ IF mode = "api"
     THEN IF ~Truthy(apiKey)
          THEN /\ Finish(c, Thrown("API key is required", 0, ""))
               /\ UNCHANGED hist
          ELSE /\ pc' = [pc EXCEPT ![c] = "fetch"]
               /\ hist' = [hist EXCEPT ![c].posts = @ + 1]
               /\ UNCHANGED outcome
     ELSE IF webllmEngine = 0
          THEN /\ pc' = [pc EXCEPT ![c] = "init"]
               /\ hist' = [hist EXCEPT ![c].inits = @ + 1]
               /\ UNCHANGED outcome
          ELSE /\ pc' = [pc EXCEPT ![c] = "chat"]
               /\ hist' = [hist EXCEPT ![c].chats = @ + 1]
               /\ UNCHANGED outcome

Awaiting(c, at) == pc[c] = at /\ frame[c].promise = "none"
Resumable(c, at) == pc[c] = at /\ frame[c].promise # "none"

\* The promise of fetch settles: a response with a status, or a network error.
FetchSettles(c, ok, status) ==
  /\ Awaiting(c, "fetch")
  /\ frame' = [frame EXCEPT ![c].promise = IF ok THEN "fulfilled" ELSE "rejected",
                            ![c].status = IF ok THEN status ELSE 0]
  /\ UNCHANGED <<webllmEngine, pc, args, outcome, hist>>

\* The continuation of fetch without the response.ok test.
ResumeFetchAnyStatus(c) ==
  /\ Resumable(c, "fetch")
  /\ IF frame[c].promise = "rejected"
     THEN Finish(c, Thrown("fetch failed", 0, "")) /\ UNCHANGED frame
     ELSE Suspend(c, "json")
  /\ UNCHANGED <<webllmEngine, args, hist>>

\* llm.js:166-171: after await fetch.
ResumeFetch(c) ==
  /\ Resumable(c, "fetch")
  /\ IF frame[c].promise = "rejected"
     THEN Finish(c, Thrown("fetch failed", 0, "")) /\ UNCHANGED frame
     ELSE IF ~Ok(frame[c].status) THEN Suspend(c, "text") ELSE Suspend(c, "json")
  /\ UNCHANGED <<webllmEngine, args, hist>>

\* response.text() delivers the body of the error response.
TextSettles(c, err) ==
  /\ Awaiting(c, "text")
  /\ frame' = [frame EXCEPT ![c].promise = "fulfilled", ![c].err = err]
  /\ UNCHANGED <<webllmEngine, pc, args, outcome, hist>>

\* llm.js:167-168
ResumeText(c) ==
  /\ Resumable(c, "text")
  /\ Finish(c, Thrown("API error", frame[c].status, frame[c].err))
  /\ UNCHANGED <<webllmEngine, args, frame, hist>>

\* response.json() delivers the decoded completion, or rejects on a body that
\* is not JSON.
JsonSettles(c, ok, reply) ==
  /\ Awaiting(c, "json")
  /\ frame' = [frame EXCEPT ![c].promise = IF ok THEN "fulfilled" ELSE "rejected",
                            ![c].hasContent = ok /\ reply.hasContent,
                            ![c].content = IF ok THEN reply.content ELSE <<>>,
                            ![c].body = IF ok THEN reply.body ELSE EmptyData]
  /\ UNCHANGED <<webllmEngine, pc, args, outcome, hist>>

\* llm.js:172-174
ResumeJson(c) ==
  /\ Resumable(c, "json")
  /\ IF frame[c].promise = "rejected"
     THEN Finish(c, Thrown("invalid response body", 0, ""))
     ELSE Finish(c, parseResponse(ContentOf(frame[c]), frame[c].body,
                                  args[c].profile, args[c].candidateName))
  /\ UNCHANGED <<webllmEngine, args, frame, hist>>

\* CreateMLCEngine settles: a fresh engine instance, or a load failure.
InitSettles(c, ok) ==
  /\ Awaiting(c, "init")
  /\ frame' = [frame EXCEPT ![c].promise = IF ok THEN "fulfilled" ELSE "rejected",
                            ![c].engine = IF ok THEN c ELSE 0]
  /\ UNCHANGED <<webllmEngine, pc, args, outcome, hist>>

\* The continuation of CreateMLCEngine with the engine used but not stored.
ResumeInitNoCache(c) ==
  /\ Resumable(c, "init")
  /\ IF frame[c].promise = "rejected"
     THEN /\ Finish(c, Thrown("engine load failed", 0, ""))
          /\ UNCHANGED <<frame, hist>>
     ELSE /\ Suspend(c, "chat")
          /\ hist' = [hist EXCEPT ![c].chats = @ + 1]
  /\ UNCHANGED <<webllmEngine, args>>

\* The continuation of CreateMLCEngine that keeps an engine already cached.
ResumeInitKeepFirst(c) ==
  /\ Resumable(c, "init")
  /\ IF frame[c].promise = "rejected"
     THEN /\ Finish(c, Thrown("engine load failed", 0, ""))
          /\ UNCHANGED <<webllmEngine, frame, hist>>
     ELSE /\ webllmEngine' = IF webllmEngine = 0 THEN frame[c].engine ELSE webllmEngine
          /\ Suspend(c, "chat")
          /\ hist' = [hist EXCEPT ![c].chats = @ + 1]
  /\ UNCHANGED args

\* llm.js:111-127: the assignment of the awaited engine, then the chat
\* completion request on whatever webllmEngine now holds.
ResumeInit(c) ==
  /\ Resumable(c, "init")
  /\ IF frame[c].promise = "rejected"
     THEN /\ Finish(c, Thrown("engine load failed", 0, ""))
          /\ UNCHANGED <<webllmEngine, frame, hist>>
     ELSE /\ webllmEngine' = frame[c].engine
          /\ Suspend(c, "chat")
          /\ hist' = [hist EXCEPT ![c].chats = @ + 1]
  /\ UNCHANGED args

\* chat.completions.create settles: a reply, or an inference failure.
ChatSettles(c, ok, reply) ==
  /\ Awaiting(c, "chat")
  /\ frame' = [frame EXCEPT ![c].promise = IF ok THEN "fulfilled" ELSE "rejected",
                            ![c].hasContent = ok /\ reply.hasContent,
                            ![c].content = IF ok THEN reply.content ELSE <<>>,
                            ![c].body = IF ok THEN reply.body ELSE EmptyData]
  /\ UNCHANGED <<webllmEngine, pc, args, outcome, hist>>

\* llm.js:129-130
ResumeChat(c) ==
  /\ Resumable(c, "chat")
  /\ IF frame[c].promise = "rejected"
     THEN Finish(c, Thrown("inference failed", 0, ""))
     ELSE Finish(c, parseResponse(ContentOf(frame[c]), frame[c].body,
                                  args[c].profile, args[c].candidateName))
  /\ UNCHANGED <<webllmEngine, args, frame, hist>>

\* The calls of generateFeedback an arbitrary caller of llm.js may make.
CallAny ==
  \/ \E c \in Calls, apiKey \in ApiKeys :
       GenerateFeedback(c, "api", apiKey, P1, <<"Ann">>) /\ UNCHANGED uiVars
  \/ \E c \in Calls : GenerateFeedback(c, "webllm", Undef, P1, <<"Ann">>) /\ UNCHANGED uiVars

\* The steps of the calls in flight: a promise settles, a continuation runs.
Backend ==
  \/ \E c \in Calls, ok \in BOOLEAN, status \in Statuses :
       FetchSettles(c, ok, status) /\ UNCHANGED uiVars
  \/ \E c \in Calls : ResumeFetch(c) /\ UNCHANGED uiVars
  \/ \E c \in Calls, err \in ErrBodies : TextSettles(c, err) /\ UNCHANGED uiVars
  \/ \E c \in Calls : ResumeText(c) /\ UNCHANGED uiVars
  \/ \E c \in Calls, ok \in BOOLEAN, reply \in ReplySet :
       JsonSettles(c, ok, reply) /\ UNCHANGED uiVars
  \/ \E c \in Calls : ResumeJson(c) /\ UNCHANGED uiVars
  \/ \E c \in Calls, ok \in BOOLEAN : InitSettles(c, ok) /\ UNCHANGED uiVars
  \/ \E c \in Calls : ResumeInit(c) /\ UNCHANGED uiVars
  \/ \E c \in Calls, ok \in BOOLEAN, reply \in ReplySet :
       ChatSettles(c, ok, reply) /\ UNCHANGED uiVars
  \/ \E c \in Calls : ResumeChat(c) /\ UNCHANGED uiVars

Next == CallAny \/ Backend

Spec == Init /\ [][Next]_vars

\* ------------------------------------------------------ a sequential caller
\* A caller that awaits each call of generateFeedback before the next one.
NoneInFlight == \A d \in Calls : pc[d] \in {"idle", "done"}

CallSequential == NoneInFlight /\ CallAny

NextSeq == CallSequential \/ Backend

SpecSeq == Init /\ [][NextSeq]_vars

\* ------------------------------------------------- the generate button
\* What the page's inputs may hold when they are read.
CandidateValues == {<<>>, <<" ">>, <<" ", "Ann">>}
NotesValues == {<<" ">>, <<"notes", " ">>}
ApiKeyValues == {<<>>, <<" ">>, <<"sk-1">>}

\* A handler between the disabling of the button and its end.
Active(k) == click[k].at \in {"loadProfile", "generate"}

\* The handler ends: what it alerted, whether a PDF was saved.
Ends(k, alert, pdf) ==
  click' = [click EXCEPT ![k].at = "done", ![k].alert = alert, ![k].pdf = pdf]

\* The click handler that never disables the button.
ClickLeavesEnabled(k, candidateValue, notesValue) ==
  LET candidate == trim(candidateValue)
      notes == trim(notesValue)
  IN /\ click[k].at = "idle"
     /\ \A j \in Clicks : j < k => click[j].at # "idle"
     /\ ~generateBtn.disabled
     /\ UNCHANGED generateBtn
     /\ IF candidate = <<>> THEN Ends(k, "Please enter the candidate name.", FALSE)
        ELSE IF notes = <<>> THEN Ends(k, "Please enter or upload interview notes.", FALSE)
        ELSE click' = [click EXCEPT ![k].at = "loadProfile", ![k].candidate = candidate]
     /\ UNCHANGED coreVars

\* main.js:73-91: a click on the button runs the handler up to its first
\* await.  A disabled button dispatches no click event.
Click(k, candidateValue, notesValue) ==
  LET candidate == trim(candidateValue)
      notes == trim(notesValue)
  IN /\ click[k].at = "idle"
     /\ \A j \in Clicks : j < k => click[j].at # "idle"
     /\ ~generateBtn.disabled
     /\ IF candidate = <<>>
        THEN /\ Ends(k, "Please enter the candidate name.", FALSE)
             /\ UNCHANGED generateBtn
        ELSE IF notes = <<>>
        THEN /\ Ends(k, "Please enter or upload interview notes.", FALSE)
             /\ UNCHANGED generateBtn
        ELSE /\ generateBtn' = [disabled |-> TRUE]
             /\ click' = [click EXCEPT ![k].at = "loadProfile", ![k].candidate = candidate]
     /\ UNCHANGED coreVars

\* The promise of loadProfile settles: the profile, or a failed download.
LoadProfileSettles(k, ok) ==
  /\ click[k].at = "loadProfile"
  /\ click[k].promise = "none"
  /\ click' = [click EXCEPT ![k].promise = IF ok THEN "fulfilled" ELSE "rejected"]
  /\ UNCHANGED generateBtn
  /\ UNCHANGED coreVars

\* main.js:92-115 and 119-125: after await loadProfile, up to the call of
\* generateFeedback; the mode and the API key are read from the page now.
ResumeLoadProfile(k, isApi, apiKeyValue) ==
  LET apiKey == trim(apiKeyValue)
  IN /\ click[k].at = "loadProfile"
     /\ click[k].promise # "none"
     /\ IF click[k].promise = "rejected"
        THEN /\ Ends(k, "Error", FALSE)
             /\ generateBtn' = [disabled |-> FALSE]
             /\ UNCHANGED coreVars
        ELSE IF isApi /\ apiKey = <<>>
        THEN /\ Ends(k, "Please enter your API key.", FALSE)
             /\ generateBtn' = [disabled |-> FALSE]
             /\ UNCHANGED coreVars
        ELSE /\ \E c \in Calls :
                  /\ GenerateFeedback(c, IF isApi THEN "api" ELSE "webllm",
                                      IF isApi THEN Str(apiKey) ELSE Undef,
                                      P1, click[k].candidate)
                  /\ click' = [click EXCEPT ![k].at = "generate", ![k].promise = "none",
                                            ![k].call = c, ![k].isApi = isApi,
                                            ![k].apiKey = apiKey]
             /\ UNCHANGED generateBtn

\* pdf.js:123: the file name is built by report.candidate_name.replace.
pdfThrows(report) == report.candidate_name.t # "string"

\* main.js:115-125: after await generateFeedback.  generatePdf saves the file
\* through the PDF library, which may fail.
ResumeGenerate(k, saved) ==
  LET result == outcome[click[k].call]
  IN /\ click[k].at = "generate"
     /\ pc[click[k].call] = "done"
     /\ IF result.kind = "Report" /\ ~pdfThrows(result.report) /\ saved
        THEN Ends(k, "", TRUE)
        ELSE Ends(k, "Error", FALSE)
     /\ generateBtn' = [disabled |-> FALSE]
     /\ UNCHANGED coreVars

NextUI ==
  \/ \E k \in Clicks, candidateValue \in CandidateValues, notesValue \in NotesValues :
       Click(k, candidateValue, notesValue)
  \/ \E k \in Clicks, ok \in BOOLEAN : LoadProfileSettles(k, ok)
  \/ \E k \in Clicks, isApi \in BOOLEAN, apiKeyValue \in ApiKeyValues :
       ResumeLoadProfile(k, isApi, apiKeyValue)
  \/ \E k \in Clicks, saved \in BOOLEAN : ResumeGenerate(k, saved)
  \/ Backend

SpecUI == Init /\ [][NextUI]_vars

\* ------------------------------------------------- normalizer under inputs
\* The normalizer is checked on a remote call whose completion has arrived
\* (suspended at response.json(), promise fulfilled), over bounded sets of
\* profiles, decoded bodies and reply texts.
SeqsUpTo(S, n) == UNION {[1..k -> S] : k \in 0..n}

NameVals ==
  {Str(NComSp), Str(NComUp), Str(NSub), Str(NAka), Str(NAkaDotted), Str(NAkaDotless),
   Str(NSql), Undef, Num(7)}
ScoreVals == {Null, Num(5), Num(6), Frac(4, 5), Str(<<"4">>)}
CommentVals == {Num(2)}

\* Entries that differ in their name: the one whose name merely contains an
\* area name carries its own score and comment.
NameEntry(nm) ==
  IF nm = Str(NSub) THEN ObjEntry(nm, Num(2), Str(<<"sub">>))
  ELSE ObjEntry(nm, Num(4), Str(<<"ok">>))

EntrySet ==
  {NameEntry(nm) : nm \in NameVals}
  \cup {ObjEntry(Str(NCom), sc, Str(<<"fine">>)) : sc \in ScoreVals}
  \cup {ObjEntry(Str(NCom), Num(3), cm) : cm \in CommentVals}
  \cup {PrimEntry(Null), PrimEntry(Num(3))}

RawSet ==
  {ArrRaw(es) : es \in SeqsUpTo(EntrySet, MaxEntries)}
  \cup {ScalarRaw(v) : v \in {Undef, Null, Num(5), Num(0), Str(<<"abc">>), EmptyObj, Bool(TRUE)}}

FieldVals ==
  {Undef, Null, Str(<<>>), Str(<<"Senior">>), Str(<<"Junior">>), Str(<<"Lead">>),
   Num(3), Bool(TRUE), EmptyArr}

ScoreBodies ==
  {ObjData(r, Absent, Absent, Undef, Undef, Undef) : r \in RawSet}
  \cup {ObjData(Absent, r, Absent, Undef, Undef, Undef) : r \in RawSet}
  \cup {ObjData(Absent, Absent, r, Undef, Undef, Undef) : r \in RawSet}

FieldBodies ==
  {ObjData(Absent, Absent, Absent, lv, cn, oc) : lv \in FieldVals, cn \in FieldVals, oc \in FieldVals}

JsonArrived(p, content, has, body) ==
  /\ webllmEngine = 0
  /\ pc = [c \in Calls |-> IF c = 1 THEN "json" ELSE "idle"]
  /\ args = [c \in Calls |->
               IF c = 1 THEN [mode |-> "api", apiKey |-> Str(<<"sk-1">>), profile |-> p,
                              candidateName |-> <<"Ann">>]
               ELSE NoArgs]
  /\ frame = [c \in Calls |->
                IF c = 1 THEN [NoFrame EXCEPT !.promise = "fulfilled", !.status = 200,
                                              !.hasContent = has, !.content = content,
                                              !.body = body]
                ELSE NoFrame]
  /\ outcome = [c \in Calls |-> Pending]
  /\ hist = [c \in Calls |-> IF c = 1 THEN [NoHist EXCEPT !.posts = 1] ELSE NoHist]
  /\ PageLoaded

InitParse ==
  \E p \in ProfileSet, b \in ScoreBodies \cup FieldBodies \cup {GoodBody, MixedBody} :
    JsonArrived(p, <<"{", "m", "}">>, TRUE, b)

NextParse == (\E c \in Calls : ResumeJson(c)) /\ UNCHANGED uiVars

SpecParse == InitParse /\ [][NextParse]_vars

TextTokens == {"{", "}", "fence", " ", "x", "m"}

ExtraTexts ==
  {<<"x", " ", "fence", "json", " ", "{", "m", "}", " ", "fence", " ", "x">>,
   <<"fence", "json", "{", "m", "}", "fence">>,
   <<"x", " ", "{", "m", "}", " ", "x">>,
   <<"{", "m", "}", " ", "x", " ", "{", "x", "}">>,
   <<"{", "m", "}", " ", "x", "}", " ", "x">>,
   <<"null">>, <<"[]">>, <<"json">>, <<" ", "[]", " ">>, <<"5">>, <<" ", "5", "5">>,
   <<"5", " ", "5">>, <<"5", "x">>}

InitExtract ==
  \/ \E t \in SeqsUpTo(TextTokens, MaxTextLen) \cup ExtraTexts :
       JsonArrived(P1, t, TRUE, GoodBody)
  \/ JsonArrived(P1, <<>>, FALSE, EmptyData)

SpecExtract == InitExtract /\ [][NextParse]_vars

\* ----------------------------------------------------------------- claims
\* The call went through parseResponse: its reply arrived and was normalized.
Parsed(c) ==
  /\ pc[c] = "done"
  /\ frame[c].promise = "fulfilled"
  /\ args[c].mode = "api" => Ok(frame[c].status)

Reported(c) == Parsed(c) /\ outcome[c].kind = "Report"

\* What the decode step made of the reply of call c.
Decoded(c) == decode(extractJson(ContentOf(frame[c])), frame[c].body)

\* The three categories: the key of the reply and of the Report, and the
\* profile list it is reconciled with.
Cats ==
  {<<"technical_scores", "technical">>, <<"non_technical_scores", "non_technical">>,
   <<"personal_assessment_scores", "personal_assessment">>}

\* The comparison of names as stated: lower-case, trim, then rewrite the
\* abbreviation in one pass, with or without its final period.
RECURSIVE RewriteAka(_, _)
RewriteAka(s, dotless) ==
  IF s = <<>> THEN <<>>
  ELSE IF StartsWith(s, AkaDotted)
       THEN Aka \o RewriteAka(SubSeq(s, 7, Len(s)), dotless)
  ELSE IF dotless /\ StartsWith(s, AkaDotless)
       THEN Aka \o RewriteAka(SubSeq(s, 6, Len(s)), dotless)
  ELSE <<Head(s)>> \o RewriteAka(Tail(s), dotless)

NormalForm(s, dotless) == RewriteAka(trim(toLowerCase(s)), dotless)

\* Entry e of a decoded array names the area.
Names(e, area, dotless) ==
  e.t = "object" /\ e.name.t = "string"
  /\ NormalForm(e.name.s, dotless) = NormalForm(area, dotless)

Matching(raw, area, dotless) ==
  IF raw.t = "array"
  THEN {j \in 1..Len(raw.elems) : Names(raw.elems[j], area, dotless)}
  ELSE {}

IsPlaceholder(entry) == entry.score = Null /\ entry.comment = Placeholder

\* A score array as a reply may give it: absent, or entries that are objects
\* whose name is a string or missing (extra, missing, reordered, misspelled).
Entries(raw) ==
  \/ raw.t = "undefined"
  \/ /\ raw.t = "array"
     /\ \A j \in 1..Len(raw.elems) :
          raw.elems[j].t = "object" /\ raw.elems[j].name.t \in {"string", "undefined"}

\* C1: for a decoded object whose score arrays are absent or hold entries
\* (extra, missing, reordered, misspelled), a Report is returned; and a
\* returned Report has, per category, exactly one entry per profile area, in
\* profile order, named as the profile names it, whatever the reply holds; an
\* area no decoded entry names gets a null score and the placeholder comment.
C1_OneEntryPerArea ==
  \A c \in Calls :
    /\ (Parsed(c) /\ Decoded(c).ok /\ Decoded(c).data.t = "object"
         /\ \A cat \in Cats : Entries(Decoded(c).data[cat[1]])) => Reported(c)
    /\ Reported(c) =>
         \A cat \in Cats :
           LET out == outcome[c].report[cat[1]]
               areas == args[c].profile[cat[2]]
               raw == Decoded(c).data[cat[1]]
           IN /\ Len(out) = Len(areas)
              /\ \A i \in 1..Len(areas) :
                   /\ out[i].name = areas[i]
                   /\ Matching(raw, areas[i], TRUE) = {} => IsPlaceholder(out[i])

\* A Report for a profile without personal-assessment areas although the reply
\* supplies that array, and one whose technical array holds an entry for no
\* area, leaves an area unnamed and names another.
C1_Witness ==
  \E c \in Calls :
    /\ Reported(c)
    /\ LET raw == Decoded(c).data.technical_scores
           areas == args[c].profile.technical
       IN /\ args[c].profile.personal_assessment = <<>>
          /\ Decoded(c).data.personal_assessment_scores.t = "array"
          /\ Len(Decoded(c).data.personal_assessment_scores.elems) > 0
          /\ outcome[c].report.personal_assessment_scores = <<>>
          /\ raw.t = "array"
          /\ \E j \in 1..Len(raw.elems) :
               \A i \in 1..Len(areas) : ~Names(raw.elems[j], areas[i], TRUE)
          /\ \E i \in 1..Len(areas) : Matching(raw, areas[i], TRUE) = {}
          /\ \E i \in 1..Len(areas) :
               /\ Matching(raw, areas[i], TRUE) # {}
               /\ ~IsPlaceholder(outcome[c].report.technical_scores[i])

\* C2 (as claimed): whenever the text decodes as JSON, parseResponse returns a
\* Report and raises nothing, whatever the shape of the decoded content.
C2_DecodedNeverThrows ==
  \A c \in Calls : (Parsed(c) /\ Decoded(c).ok) => outcome[c].kind = "Report"

BraceFree(T) == \A i \in 1..Len(T) : T[i] \notin {"{", "}"}

\* A brace-free text that is itself a JSON value: a number, null or an array.
JsonLiteral(U) ==
  \/ U \in {<<"null">>, <<"[]">>}
  \/ U # <<>> /\ \A i \in 1..Len(U) : U[i] = "5"

Placeholders(areas) == [i \in 1..Len(areas) |-> ScoreEntry(areas[i], Null, Placeholder)]

\* The Report of an empty object.
DefaultReport(profile, candidateName) ==
  Report(Str(candidateName), Placeholders(profile.technical),
         Placeholders(profile.non_technical), Placeholders(profile.personal_assessment),
         Str(profile.overall_levels[1]), Str(OverallPlaceholder))

\* C3 (as claimed): every reply without a brace, the empty reply and a bare
\* number or array included, raises ParseError.
C3_BraceFreeRaises ==
  \A c \in Calls : (Parsed(c) /\ BraceFree(ContentOf(frame[c]))) =>
    outcome[c] = Thrown(ParseErrorMsg, 0, "")

\* C3 (amended): a reply without a brace that is not blank and is not itself a
\* JSON value raises ParseError and returns no Report; the blank reply is
\* decoded as the empty object and gives the all-default Report; a brace-free
\* JSON value is decoded, not rejected with ParseError.
C3_ProseRaises ==
  \A c \in Calls : (Parsed(c) /\ BraceFree(ContentOf(frame[c]))) =>
    LET U == trim(ContentOf(frame[c])) IN
    /\ (U # <<>> /\ ~JsonLiteral(U)) => outcome[c] = Thrown(ParseErrorMsg, 0, "")
    /\ U = <<>> => outcome[c] = Returned(DefaultReport(args[c].profile, args[c].candidateName))
    /\ JsonLiteral(U) => outcome[c].error # ParseErrorMsg

\* A reply of prose alone was rejected with ParseError.
C3_Witness ==
  \E c \in Calls :
    /\ Parsed(c)
    /\ trim(ContentOf(frame[c])) = <<"x", " ", "x">>
    /\ outcome[c] = Thrown(ParseErrorMsg, 0, "")

\* C4 (as claimed): every score of a returned Report is null or an integer
\* in 1..5.
C4_IntegerScores ==
  \A c \in Calls : Reported(c) =>
    \A cat \in Cats :
      \A i \in 1..Len(outcome[c].report[cat[1]]) :
        LET sc == outcome[c].report[cat[1]][i].score IN
        sc = Null \/ (sc.t = "number" /\ sc.f = 0 /\ sc.n \in 1..5)

\* The entry of an area comes from a decoded entry that names it, and from
\* nowhere else.
TakenFrom(out, e) ==
  /\ out.score \in {Null, e.score}
  /\ (e.score.t = "number" /\ e.score.f = 0 /\ e.score.n \in 1..5) => out.score = e.score
  /\ out.comment \in {Placeholder} \cup (IF e.comment.t = "string" THEN {e.comment.s} ELSE {})
  /\ e.comment.t = "string" => out.comment = e.comment.s

MatchedAsStated(c, dotless) ==
  \A cat \in Cats :
    LET out == outcome[c].report[cat[1]]
        areas == args[c].profile[cat[2]]
        raw == Decoded(c).data[cat[1]]
    IN \A i \in 1..Len(out) :
         IF Matching(raw, areas[i], dotless) = {}
         THEN IsPlaceholder(out[i])
         ELSE \E j \in Matching(raw, areas[i], dotless) : TakenFrom(out[i], raw.elems[j])

\* C5 (as claimed): an entry is matched to an area exactly when the names are
\* equal after lower-casing, trimming and rewriting a.k.a. (with its final
\* period) to aka.
C5_MatchDottedOnly == \A c \in Calls : Reported(c) => MatchedAsStated(c, FALSE)

\* C5 (amended): an entry is matched to an area exactly when the names are
\* equal after lower-casing, trimming and rewriting a.k.a. or a.k.a (with or
\* without the final period) to aka; the entry of an area takes its score and
\* comment only from an entry that matches it so.
C5_MatchNormalized == \A c \in Calls : Reported(c) => MatchedAsStated(c, TRUE)

\* A Report where an entry whose name only contains the area name was passed
\* over, and a padded name in another case was matched.
C5_Witness ==
  \E c \in Calls :
    /\ Reported(c)
    /\ args[c].profile = P1
    /\ Decoded(c).data.technical_scores = ArrRaw(<<NameEntry(Str(NSub)), NameEntry(Str(NComUp))>>)
    /\ outcome[c].report.technical_scores[1] = ScoreEntry(NCom, Num(4), <<"ok">>)

InLevels(profile, v) ==
  v.t = "string" /\ \E i \in 1..Len(profile.overall_levels) : profile.overall_levels[i] = v.s

\* C6: with a non-empty overall_levels, the overall_level of a returned Report
\* is one of the allowed levels: the decoded value when that is exactly an
\* allowed level, the first allowed level otherwise.
C6_OverallLevel ==
  \A c \in Calls : (Reported(c) /\ Len(args[c].profile.overall_levels) > 0) =>
    LET lv == outcome[c].report.overall_level
        d == Decoded(c).data.overall_level
    IN /\ InLevels(args[c].profile, lv)
       /\ lv = IF InLevels(args[c].profile, d) THEN d ELSE Str(args[c].profile.overall_levels[1])

\* A Report whose reply asked for a level that is not allowed.
C6_Witness ==
  \E c \in Calls :
    /\ Reported(c)
    /\ Decoded(c).data.overall_level = Str(<<"Lead">>)
    /\ outcome[c].report.overall_level = Str(args[c].profile.overall_levels[1])

NonEmptyString(v) == v.t = "string" /\ v.s # <<>>

\* C7 (as claimed): candidate_name and overall_comment of a returned Report are
\* the decoded values only when those are non-empty strings, and otherwise the
\* name the caller gave and the fixed placeholder: both are always strings.
C7_StringFields ==
  \A c \in Calls : Reported(c) =>
    LET d == Decoded(c).data IN
    /\ outcome[c].report.candidate_name =
         IF NonEmptyString(d.candidate_name) THEN d.candidate_name
         ELSE Str(args[c].candidateName)
    /\ outcome[c].report.overall_comment =
         IF NonEmptyString(d.overall_comment) THEN d.overall_comment
         ELSE Str(OverallPlaceholder)

\* Where the object that opens at the first token of T closes (0: nowhere).
RECURSIVE CloseOf(_, _, _)
CloseOf(T, k, depth) ==
  IF k > Len(T) THEN 0
  ELSE IF T[k] = "{" THEN CloseOf(T, k + 1, depth + 1)
  ELSE IF T[k] = "}" THEN (IF depth = 1 THEN k ELSE CloseOf(T, k + 1, depth - 1))
  ELSE CloseOf(T, k + 1, depth)

\* T is one JSON object followed by prose that holds a later closing brace.
ObjectThenProse(T) ==
  /\ \A i \in 1..Len(T) : T[i] # "fence"
  /\ T # <<>> /\ T[1] = "{"
  /\ LET e == CloseOf(T, 2, 1) IN
     /\ e # 0
     /\ trim(SubSeq(T, 2, e - 1)) \in {<<>>, <<"m">>}
     /\ \E i \in (e + 1)..Len(T) : T[i] = "}"
     /\ \A i \in (e + 1)..Len(T) : T[i] \in {" ", "x", "}", "{"}

\* C8 (as claimed): for a text without a fence that is one JSON object
\* followed by prose holding a later closing brace, the candidate handed to
\* the decode step is the first top-level object, and normalization returns a
\* Report instead of raising ParseError.
C8_FirstTopLevelObject ==
  \A c \in Calls :
    LET T == trim(ContentOf(frame[c])) IN
    (Parsed(c) /\ ObjectThenProse(T)) =>
      /\ extractJson(ContentOf(frame[c])) = SubSeq(T, 1, CloseOf(T, 2, 1))
      /\ outcome[c].kind = "Report"

NoCredential(c) == args[c].mode = "api" /\ ~Truthy(args[c].apiKey)

NoKeyError == Thrown("API key is required", 0, "")

\* C9: a remote call without a credential fails with the configuration error
\* before any request: the step that starts it ends it, issues no POST,
\* returns no Report and leaves webllmEngine as it was; and no request is
\* issued on that call afterwards.
C9_NoCredentialNoRequest ==
  /\ [](\A c \in Calls : (pc[c] # "idle" /\ NoCredential(c)) =>
          /\ pc[c] = "done"
          /\ outcome[c] = NoKeyError
          /\ hist[c] = NoHist)
  /\ [][\A c \in Calls :
          (pc[c] = "idle" /\ pc'[c] # "idle" /\ NoCredential(c)') =>
            /\ pc'[c] = "done"
            /\ outcome'[c] = NoKeyError
            /\ webllmEngine' = webllmEngine
            /\ hist' = hist]_vars

\* A remote call without a credential has failed while an engine stays cached.
C9_Witness ==
  \E c \in Calls :
    /\ NoCredential(c)
    /\ pc[c] = "done"
    /\ outcome[c] = NoKeyError
    /\ webllmEngine # 0

HasCredential(c) == args[c].mode = "api" /\ Truthy(args[c].apiKey)

\* The response of call c arrived with a non-success status.
Refused(c) == frame[c].status \in Statuses /\ ~Ok(frame[c].status)

Local(c) == pc[c] # "idle" /\ args[c].mode = "webllm"
Remote(c) == pc[c] # "idle" /\ args[c].mode = "api"

\* The initialization of call c succeeded: CreateMLCEngine gave it an engine.
InitSucceeded(c) == Local(c) /\ frame[c].engine # 0

\* The initialization of call c failed and the call ended on it.
InitFailed(c) ==
  /\ Local(c)
  /\ hist[c].inits = 1
  /\ frame[c].promise = "rejected"
  /\ frame[c].engine = 0
  /\ pc[c] = "done"
  /\ hist[c].chats = 0

InitError == Thrown("engine load failed", 0, "")

\* The calls whose initialization is in flight or awaits its continuation.
Initializing == {c \in Calls : pc[c] = "init"}

\* Call c starts in this step.
Starts(c) == pc[c] = "idle" /\ pc'[c] # "idle"

\* C11: under a caller that never overlaps calls, (a) a local call starts an
\* initialization exactly when it starts with no engine cached, and no
\* initialization starts at any other moment; (b) once an engine is cached it
\* stays the cached one, later local calls go straight to inference on it,
\* at most one initialization is in flight and at most one ever succeeds; (c) a call whose
\* initialization failed ended with that error, attempted no inference and
\* cached nothing; (d) remote calls start no initialization and no inference,
\* and the cache changes only by a local call storing the engine its own
\* initialization gave.
C11_LazySingleEngine ==
  /\ [](/\ Cardinality({c \in Calls : InitSucceeded(c)}) <= 1
        /\ Cardinality(Initializing) <= 1
        /\ \A c \in Calls :
             /\ InitSucceeded(c) /\ pc[c] \in {"chat", "done"} => webllmEngine = frame[c].engine
             /\ InitFailed(c) => outcome[c] = InitError
             /\ Local(c) => hist[c].inits <= 1 /\ hist[c].chats <= 1 /\ hist[c].posts = 0
             /\ Remote(c) => hist[c].inits = 0 /\ hist[c].chats = 0
             /\ pc[c] = "init" => webllmEngine = 0)
  /\ [][/\ \A c \in Calls :
             /\ (Starts(c) /\ Local(c)' /\ webllmEngine = 0) =>
                   pc'[c] = "init" /\ hist'[c].inits = 1 /\ hist'[c].chats = 0
             /\ (Starts(c) /\ Local(c)' /\ webllmEngine # 0) =>
                   pc'[c] = "chat" /\ hist'[c].inits = 0 /\ hist'[c].chats = 1
             /\ hist'[c].inits # hist[c].inits =>
                   Starts(c) /\ Local(c)' /\ webllmEngine = 0
             /\ (pc[c] = "init" /\ pc'[c] = "done") =>
                   InitFailed(c)' /\ webllmEngine' = 0
        /\ webllmEngine # 0 => webllmEngine' = webllmEngine
        /\ webllmEngine' # webllmEngine =>
             \E c \in Calls : /\ Local(c) /\ pc[c] = "init" /\ pc'[c] = "chat"
                               /\ frame[c].engine # 0
                               /\ webllmEngine' = frame[c].engine]_vars

\* An initialization failed on one call, the next call started one again, it
\* succeeded, its engine is the cached one and the call has returned.
C11_Witness ==
  \E c, d \in Calls :
    /\ c < d
    /\ InitFailed(c) /\ outcome[c] = InitError
    /\ InitSucceeded(d) /\ hist[d].inits = 1 /\ hist[d].chats = 1
    /\ pc[d] = "done" /\ outcome[d].kind = "Report"
    /\ webllmEngine = frame[d].engine

\* C12: llm.js does not serialize initialization.  A local call that starts
\* while no engine is cached starts its own initialization, whether or not
\* another one is in flight; every initialization that succeeds stores its
\* engine over whatever is cached, so the cached engine is that of the
\* initialization that completed last; a local call skips initialization
\* only if an engine was cached.
C12_NoSerialization ==
  /\ [](/\ \A c \in Calls : (Local(c) /\ hist[c].inits = 0) => webllmEngine # 0
        /\ \A c \in Initializing : hist[c].inits = 1
        /\ webllmEngine # 0 =>
             \E c \in Calls : /\ InitSucceeded(c) /\ pc[c] \in {"chat", "done"}
                               /\ webllmEngine = frame[c].engine)
  /\ [][\A c \in Calls :
          /\ (Starts(c) /\ Local(c)' /\ webllmEngine = 0) =>
                /\ pc'[c] = "init"
                /\ hist'[c].inits = 1
                /\ Initializing' = Initializing \cup {c}
          /\ (pc[c] = "init" /\ pc'[c] = "chat") => webllmEngine' = frame[c].engine]_vars

\* Two local calls were started before either initialization completed, both
\* initializations succeeded with engines of their own, and the cached engine
\* is that of the call started first, which completed last.
C12_Witness ==
  \E c, d \in Calls :
    /\ c < d
    /\ InitSucceeded(c) /\ InitSucceeded(d)
    /\ hist[c].inits = 1 /\ hist[d].inits = 1
    /\ frame[c].engine # frame[d].engine
    /\ pc[c] \in {"chat", "done"} /\ pc[d] \in {"chat", "done"}
    /\ webllmEngine = frame[c].engine

\* ------------------------------------------------- the button serializes
InFlight == {c \in Calls : pc[c] \notin {"idle", "done"}}

\* C13: the generate button is disabled exactly while a handler is between
\* passing the candidate and notes checks and its end, whichever way it ends;
\* so at most one handler is running, at most one generateFeedback call and
\* at most one initialization are in flight, every call in flight is the one
\* the running handler awaits, and whenever no handler is running the button
\* is enabled for the next click.
C13_ButtonSerializes ==
  /\ generateBtn.disabled <=> \E k \in Clicks : Active(k)
  /\ Cardinality({k \in Clicks : Active(k)}) <= 1
  /\ Cardinality(InFlight) <= 1
  /\ Cardinality(Initializing) <= 1
  /\ \A c \in InFlight : \E k \in Clicks : click[k].at = "generate" /\ click[k].call = c
  /\ \A k \in Clicks : click[k].at = "done" =>
       \/ click[k].call = 0
       \/ pc[click[k].call] = "done"

\* A handler disabled the button and ended on the missing API key; the next
\* click started a generation whose initialization is in flight, and the
\* button is disabled again.
C13_Witness ==
  \E j, k \in Clicks :
    /\ j < k
    /\ click[j].at = "done" /\ click[j].alert = "Please enter your API key."
    /\ click[k].at = "generate" /\ click[k].call \in Initializing
    /\ generateBtn.disabled

====
